---------------------------- MODULE Spec2Model ----------------------------
(***************************************************************************)
(* A model of the Kiln datamodel (libs/core/kiln_ai/datamodel/__init__.py): *)
(* the dataset split builder (DatasetSplit) and the TaskRun validation      *)
(* engine with its change cache.                                            *)
(*                                                                          *)
(* Numbers.  A split percentage is a float in the code.  Here it is the     *)
(* pair [c, f] standing for the real number c/PctDen + f/FineDen, where     *)
(* PctDen = 100 and FineDen = 10^10: c counts hundredths and f counts       *)
(* units of 1e-10, so that both the 0.01 steps of the split definitions     *)
(* and deviations around the 1e-9 tolerance of math.isclose are exact.      *)
(* Run IDs are naturals (the code's IDs are opaque strings).                *)
(***************************************************************************)
EXTENDS Integers, Sequences, FiniteSets, TLC

VARIABLES
    task_runs,      \* the parent Task's runs, in the order task.runs() yields them
    next_id,        \* the next fresh run ID
    build,          \* the last call of build_split_contents: arguments, shuffle, result
    ds,             \* the DatasetSplit instance (NoSplit before one is constructed)
    op,             \* the last operation and its outcome
    run,            \* the TaskRun instance under validation (NoRun before one exists)
    strict          \* the module's _strict_mode flag

vars == <<task_runs, next_id, build, ds, op, run, strict>>

---------------------------------------------------------------------------
(* Bounds of the model *)

MaxRuns == 3            \* runs added to the task one by one
ExampleRuns == 10       \* size of the pre-populated task (the 10-run example)
MaxSplits == 3          \* split definitions in one list
MaxShuffleLen == 2      \* up to this length every shuffle order is explored
MaxFineSplits == 2     \* split definitions in a list with fine-grained percentages
MaxTags == 2            \* tags in a run's tag list
MaxRequirements == 2    \* entries of a rating's requirement_ratings
MaxRunIds == 3          \* run IDs handed out while splits are counted
MaxListed == 2          \* IDs in one list of a hand-made split_contents
MaxLaterIds == 4        \* run IDs handed out before and after a split is built

(* Program constants *)

PctDen == 100           \* c counts hundredths: percentage is in [0.0, 1.0]
RelTolUnits == 10       \* rel_tol=1e-9 in units of 1e-10
FinePerPct == 100000000 \* 0.01 in units of 1e-10

None == "None"

---------------------------------------------------------------------------
(* Arithmetic helpers *)

Abs(x) == IF x < 0 THEN -x ELSE x
Max(a, b) == IF a >= b THEN a ELSE b
Min(a, b) == IF a <= b THEN a ELSE b

Pct(c, f) == [c |-> c, f |-> f]

\* Field(ge=0.0, le=1.0) of DatasetSplitDefinition.percentage
PercentageInRange(p) ==
    /\ p.c \in 0..PctDen
    /\ (p.c = 0 => p.f >= 0)
    /\ (p.c = PctDen => p.f <= 0)

\* A rounding that truncates instead of rounding to nearest (int(n * p))
PyRoundTimes_truncating(n, p) == (n * p.c) \div PctDen

\* Python's round(n * percentage): nearest integer, ties to even.  The fine
\* part f is far below one unit of n*c/PctDen and only decides a tie.
PyRoundTimes(n, p) ==
    LET num == n * p.c
        q   == num \div PctDen
        r   == num % PctDen
    IN  IF 2 * r < PctDen THEN q
        ELSE IF 2 * r > PctDen THEN q + 1
        ELSE IF n * p.f > 0 THEN q + 1
        ELSE IF n * p.f < 0 THEN q
        ELSE IF q % 2 = 0 THEN q ELSE q + 1

RECURSIVE SumPercentages(_)
\* sum(split.percentage for split in self.splits)
SumPercentages(splits) ==
    IF splits = <<>> THEN Pct(0, 0)
    ELSE LET rest == SumPercentages(Tail(splits))
         IN  Pct(Head(splits).percentage.c + rest.c,
                 Head(splits).percentage.f + rest.f)

\* A closeness test with a tolerance of 0.01 instead of 1e-9
IsCloseToOne_loose(total) ==
    /\ total.c >= PctDen \/ (total.c = PctDen - 1 /\ total.f >= 0)
    /\ total.c <= PctDen \/ (total.c = PctDen + 1 /\ total.f <= 0)

\* math.isclose(total, 1.0, rel_tol=1e-9):
\*   abs(total - 1.0) <= rel_tol * max(abs(total), 1.0)
\* In units of 1e-10 the difference is D = (c - PctDen) * FinePerPct + f and
\* the right-hand side is RelTolUnits * max(total, 1).  D is an integer, so
\* the test is |D| <= R with R the floor of the right-hand side; it is
\* evaluated as bounds on c - PctDen so that no product leaves 32 bits.
IsCloseToOne(total) ==
    LET geOne == total.c > PctDen \/ (total.c = PctDen /\ total.f >= 0)
        \* R = floor(RelTolUnits * max(total, 1.0))
        R == IF ~geOne THEN RelTolUnits
             ELSE IF total.f >= 0 THEN (RelTolUnits * total.c) \div PctDen
             ELSE (RelTolUnits * total.c - 1) \div PctDen
        up == (R - total.f) \div FinePerPct          \* floor((R - f) / FinePerPct)
        lo == -((R + total.f) \div FinePerPct)       \* ceil((-R - f) / FinePerPct)
    IN  /\ lo <= total.c - PctDen
        /\ total.c - PctDen <= up

---------------------------------------------------------------------------
(* Ratings and dataset filters *)

\* An optional TaskOutputRating: present is FALSE for "rating is None",
\* has_value is FALSE for "rating.value is None"
NoRating == [present |-> FALSE, type |-> "five_star", has_value |-> FALSE, value |-> 0]
Rating(type, value) ==
    [present |-> TRUE, type |-> type, has_value |-> TRUE, value |-> value]

\* is_high_quality with the five_star threshold at 3
is_high_quality_from_three_stars(rating) ==
    IF ~rating.has_value THEN FALSE
    ELSE IF rating.type = "five_star" THEN rating.value >= 3
    ELSE IF rating.type = "pass_fail" THEN rating.value = 1
    ELSE IF rating.type = "pass_fail_critical" THEN rating.value = 1
    ELSE FALSE

\* TaskOutputRating.is_high_quality
is_high_quality(rating) ==
    IF ~rating.has_value THEN FALSE
    ELSE IF rating.type = "five_star" THEN rating.value >= 4
    ELSE IF rating.type = "pass_fail" THEN rating.value = 1
    ELSE IF rating.type = "pass_fail_critical" THEN rating.value = 1
    ELSE FALSE

AllDatasetFilter(task_run) == TRUE

HighRatingDatasetFilter(task_run) ==
    IF task_run.repaired_output # None THEN TRUE
    ELSE IF ~task_run.rating.present THEN FALSE
    ELSE is_high_quality(task_run.rating)

DatasetFilters == {"AllDatasetFilter", "HighRatingDatasetFilter"}

ApplyFilter(filter, task_run) ==
    IF filter = "AllDatasetFilter" THEN AllDatasetFilter(task_run)
    ELSE HighRatingDatasetFilter(task_run)

---------------------------------------------------------------------------
(* Split definitions *)

SplitDef(name, percentage) == [name |-> name, percentage |-> percentage]

AllSplitDefinition == <<SplitDef("all", Pct(100, 0))>>
Train80Test20SplitDefinition ==
    <<SplitDef("train", Pct(80, 0)), SplitDef("test", Pct(20, 0))>>
Train60Test20Val20SplitDefinition ==
    <<SplitDef("train", Pct(60, 0)), SplitDef("test", Pct(20, 0)),
      SplitDef("val", Pct(20, 0))>>
Train80Test10Val10SplitDefinition ==
    <<SplitDef("train", Pct(80, 0)), SplitDef("test", Pct(10, 0)),
      SplitDef("val", Pct(10, 0))>>

StandardSplitLists ==
    {AllSplitDefinition, Train80Test20SplitDefinition,
     Train60Test20Val20SplitDefinition, Train80Test10Val10SplitDefinition}

\* The split names and percentages the callers of the builder draw from.
\* Only which definitions share a name matters to the builder, so the names
\* of a list are drawn in order of first use from PositionNames.
PositionNames == <<"train", "test", "val", "extra">>
CoarsePcts == {Pct(0, 0), Pct(20, 0), Pct(50, 0), Pct(80, 0)}

NamePatterns(m) ==
    {ns \in [1..m -> 1..m] :
        \A i \in 1..m : \A k \in 2..ns[i] : \E j \in 1..(i - 1) : ns[j] = k - 1}

CoarseLists(m) ==
    {[i \in 1..m |-> SplitDef(PositionNames[ns[i]], ps[i])] :
        ns \in NamePatterns(m), ps \in [1..m -> CoarsePcts]}

SplitLists == StandardSplitLists \cup UNION {CoarseLists(m) : m \in 0..MaxSplits}

\* Percentages around the tolerance of the sum check: hundredths next to
\* 0, 0.5 and 1, each off by nothing or by 0.9e-9 or 1.1e-9
FinePcts ==
    {p \in {Pct(c, f) : c \in {0, 1, 49, 50, 51, 99, 100}, f \in {-11, -9, 0, 9, 11}} :
        PercentageInRange(p)}
FineSplitLists ==
    UNION {{[i \in 1..m |-> SplitDef(PositionNames[i], ps[i])] : ps \in [1..m -> FinePcts]} :
              m \in 0..MaxFineSplits}

---------------------------------------------------------------------------
(* DatasetSplit *)

NoSplit == [exists |-> FALSE]
NoBuild == [called |-> FALSE]

\* A validator that only rejects totals below 1.0
validate_split_percentages_raises_low_only(splits) ==
    /\ ~IsCloseToOne(SumPercentages(splits))
    /\ SumPercentages(splits).c < PctDen

\* DatasetSplit.validate_split_percentages: TRUE when it raises
validate_split_percentages_raises(splits) ==
    ~IsCloseToOne(SumPercentages(splits))

\* Python's seq[a:b] for 0 <= a, a <= b: indices clamp to the length
Slice(seq, a, b) == SubSeq(seq, Min(a, Len(seq)) + 1, Min(b, Len(seq)))

\* split_contents[name] = ids
DictSet(d, k, v) == [x \in DOMAIN d \cup {k} |-> IF x = k THEN v ELSE d[x]]

EmptyDict == [x \in {} |-> <<>>]

RECURSIVE SplitLoop(_, _, _, _, _)
\* "for split in splits[:-1]": the loop body at index i, with the
\* accumulated split_contents and start_idx
SplitLoop(valid_ids, splits, i, split_contents, start_idx) ==
    IF i > Len(splits) - 1
    THEN [split_contents |-> split_contents, start_idx |-> start_idx]
    ELSE LET split_size == PyRoundTimes(Len(valid_ids), splits[i].percentage)
         IN  SplitLoop(valid_ids, splits, i + 1,
                       DictSet(split_contents, splits[i].name,
                               Slice(valid_ids, start_idx, start_idx + split_size)),
                       start_idx + split_size)

\* DatasetSplit.build_split_contents after random.shuffle(valid_ids):
\* valid_ids is the shuffled list
SplitShuffled(valid_ids, splits) ==
    LET loop == SplitLoop(valid_ids, splits, 1, EmptyDict, 0)
    IN  IF splits # <<>>
        THEN DictSet(loop.split_contents, splits[Len(splits)].name,
                     Slice(valid_ids, loop.start_idx, Len(valid_ids)))
        ELSE loop.split_contents

RECURSIVE FilteredIds(_, _)
\* "for task_run in task.runs(): if filter(task_run): valid_ids.append(task_run.id)"
FilteredIds(runs, filter) ==
    IF runs = <<>> THEN <<>>
    ELSE IF ApplyFilter(filter, Head(runs))
         THEN <<Head(runs).id>> \o FilteredIds(Tail(runs), filter)
         ELSE FilteredIds(Tail(runs), filter)

\* The orders random.shuffle may leave a list in: every permutation of a
\* list of at most MaxShuffleLen items, the rotations of a longer one.
ShuffleOutcomes(ids) ==
    LET n == Len(ids)
    IN  IF n <= MaxShuffleLen
        THEN {[i \in 1..n |-> ids[p[i]]] :
                 p \in {q \in [1..n -> 1..n] : \A a, b \in 1..n : q[a] = q[b] => a = b}}
        ELSE {[i \in 1..n |-> ids[((i + k - 1) % n) + 1]] : k \in 0..(n - 1)}

---------------------------------------------------------------------------
(* The task's runs *)

\* What the dataset filters read of a run: its repaired output and the
\* rating of its output
RunProfiles ==
    {[repaired_output |-> None, rating |-> NoRating],
     [repaired_output |-> None, rating |-> Rating("five_star", 5)]}

TaskRunOf(id, profile) ==
    [id |-> id, repaired_output |-> profile.repaired_output, rating |-> profile.rating]

ExampleTaskRuns ==
    [i \in 1..ExampleRuns |-> TaskRunOf(i, [repaired_output |-> None, rating |-> NoRating])]

---------------------------------------------------------------------------
(* JSON texts and schemas *)

\* The texts a run's input and output.output are drawn from
TextPlain == "plain text"
TextA1 == "{\"a\": 1}"
TextA2 == "{\"a\": 2}"
TextB == "{\"b\": 1}"
Texts == {TextPlain, TextA1, TextA2, TextB}

\* json.loads(text): raises JSONDecodeError (ok is FALSE) or yields the
\* object, given as its set of <<key, JSON type of the value>>
JsonLoads(text) ==
    IF text = TextA1 THEN [ok |-> TRUE, value |-> {<<"a", "integer">>}]
    ELSE IF text = TextA2 THEN [ok |-> TRUE, value |-> {<<"a", "integer">>}]
    ELSE IF text = TextB THEN [ok |-> TRUE, value |-> {<<"b", "integer">>}]
    ELSE [ok |-> FALSE, value |-> {}]

\* The schema texts a Task declares: None, or an object schema that
\* requires an integer property "a"
SchemaA == "{\"type\": \"object\", \"properties\": {\"a\": {\"type\": \"integer\"}}, \"required\": [\"a\"]}"

SchemaRequired(schema) == IF schema = SchemaA THEN {"a"} ELSE {}
SchemaProperties(schema) == IF schema = SchemaA THEN {<<"a", "integer">>} ELSE {}

\* validate_schema(instance, schema_str): TRUE when it raises
\* jsonschema.exceptions.ValidationError
validate_schema_raises(instance, schema) ==
    \/ \E k \in SchemaRequired(schema) : \A kv \in instance : kv[1] # k
    \/ \E kv \in instance : \E pr \in SchemaProperties(schema) :
          kv[1] = pr[1] /\ kv[2] # pr[2]

\* The tasks a run may be attached to, by name, and their schemas
Tasks == {"task_plain", "task_structured", "task_structured_input"}

input_json_schema(task) ==
    IF task \in {"task_structured", "task_structured_input"} THEN SchemaA ELSE None

output_json_schema(task) ==
    IF task = "task_structured" THEN SchemaA ELSE None

---------------------------------------------------------------------------
(* TaskOutput and TaskRun *)

NoRun == [exists |-> FALSE]

\* The module-level flag: strict_mode() returns _strict_mode
strict_mode == strict

\* A DataSource is named by its type here; its properties are the subject
\* of DataSourceErrors below
DataSourceTypes == {"human", "synthetic"}

\* TaskOutput(output=text, source=source): loaded_from_file is the instance's
\* "materialized from storage" mark
TaskOutput(text, source) ==
    [output |-> text, source |-> source, loaded_from_file |-> FALSE]

\* loaded_from_file(info): the validation is a load, or the instance has
\* been marked as loaded
loaded_from_file(instance, loading) == loading \/ instance.loaded_from_file

\* TaskOutput.validate_output_source: the error it raises, or None
validate_output_source(output, loading) ==
    IF ~strict_mode THEN None
    ELSE IF loaded_from_file(output, loading) THEN None
    ELSE IF output.source = None
    THEN "Output source is required when strict mode is enabled"
    ELSE None

\* Tags are sequences of characters
Tag_a_b == <<"a", "_", "b">>
Tag_c == <<"c">>
TagEmpty == <<>>
TagSpace == <<"a", " ", "b">>
TagTab == <<"a", "\t", "b">>
TagNewline == <<"a", "\n", "b">>
Tags == {Tag_a_b, Tag_c, TagEmpty, TagSpace, TagTab, TagNewline}

\* An optional repaired_output: present is FALSE for None; has_rating tells
\* whether repaired_output.rating is not None
NoRepairedOutput == [present |-> FALSE, has_rating |-> FALSE]
RepairedOutputs ==
    {NoRepairedOutput, [present |-> TRUE, has_rating |-> FALSE],
     [present |-> TRUE, has_rating |-> TRUE]}

RepairInstructions == {None, "fix the output"}

\* A TaskRun instance before any validator has run on it: no
\* _last_validated_input / _last_validated_output attribute yet
NewTaskRun(input, output, parent, repair_instructions, repaired_output, input_source, tags) ==
    [exists |-> TRUE,
     input |-> input,
     input_source |-> input_source,
     output |-> output,
     tags |-> tags,
     parent |-> parent,
     repair_instructions |-> repair_instructions,
     repaired_output |-> repaired_output,
     has_last_validated_input |-> FALSE,
     last_validated_input |-> "",
     has_last_validated_output |-> FALSE,
     last_validated_output |-> "",
     loaded_from_file |-> FALSE]

\* TaskRun.parent_task
parent_task(r) == r.parent

Ok(r, checked) == [run |-> r, error |-> None, checked |-> checked]
Raise(r, error, checked) == [run |-> r, error |-> error, checked |-> checked]

\* validate_input_format without its loading_from_file branch
validate_input_format_checking_on_load(r, loading) ==
    IF r.has_last_validated_input /\ r.input = r.last_validated_input
    THEN Ok(r, FALSE)
    ELSE IF parent_task(r) = None
    THEN Ok(r, FALSE)
    ELSE LET schema == input_json_schema(parent_task(r))
             cached == [r EXCEPT !.has_last_validated_input = TRUE,
                                 !.last_validated_input = r.input]
         IN  IF schema = None THEN Ok(cached, FALSE)
             ELSE IF ~JsonLoads(r.input).ok
             THEN Raise(r, "Input is not a valid JSON object", TRUE)
             ELSE IF validate_schema_raises(JsonLoads(r.input).value, schema)
             THEN Raise(r, "Input does not match task input schema", TRUE)
             ELSE Ok(cached, TRUE)

\* validate_input_format that records the input before the schema check
validate_input_format_recording_first(r, loading) ==
    IF loading
    THEN Ok([r EXCEPT !.has_last_validated_input = TRUE,
                      !.last_validated_input = r.input], FALSE)
    ELSE IF r.has_last_validated_input /\ r.input = r.last_validated_input
    THEN Ok(r, FALSE)
    ELSE IF parent_task(r) = None
    THEN Ok(r, FALSE)
    ELSE LET schema == input_json_schema(parent_task(r))
             cached == [r EXCEPT !.has_last_validated_input = TRUE,
                                 !.last_validated_input = r.input]
         IN  IF schema = None THEN Ok(cached, FALSE)
             ELSE IF ~JsonLoads(r.input).ok
             THEN Raise(cached, "Input is not a valid JSON object", TRUE)
             ELSE IF validate_schema_raises(JsonLoads(r.input).value, schema)
             THEN Raise(cached, "Input does not match task input schema", TRUE)
             ELSE Ok(cached, TRUE)

\* TaskRun.validate_input_format.  checked tells whether the schema check
\* (the try block) was entered.
validate_input_format(r, loading) ==
    IF loading
    THEN Ok([r EXCEPT !.has_last_validated_input = TRUE,
                      !.last_validated_input = r.input], FALSE)
    ELSE IF r.has_last_validated_input /\ r.input = r.last_validated_input
    THEN Ok(r, FALSE)
    ELSE IF parent_task(r) = None
    THEN Ok(r, FALSE)
    ELSE LET schema == input_json_schema(parent_task(r))
             cached == [r EXCEPT !.has_last_validated_input = TRUE,
                                 !.last_validated_input = r.input]
         IN  IF schema = None THEN Ok(cached, FALSE)
             ELSE IF ~JsonLoads(r.input).ok
             THEN Raise(r, "Input is not a valid JSON object", TRUE)
             ELSE IF validate_schema_raises(JsonLoads(r.input).value, schema)
             THEN Raise(r, "Input does not match task input schema", TRUE)
             ELSE Ok(cached, TRUE)

\* TaskOutput.validate_output_format reporting every failure as a mismatch
TaskOutput_validate_output_format_one_kind(output, task) ==
    IF output_json_schema(task) = None THEN None
    ELSE IF ~JsonLoads(output.output).ok
    THEN "Output does not match task output schema"
    ELSE IF validate_schema_raises(JsonLoads(output.output).value,
                                   output_json_schema(task))
    THEN "Output does not match task output schema"
    ELSE None

\* TaskOutput.validate_output_format(task): the error it raises, or None
TaskOutput_validate_output_format(output, task) ==
    IF output_json_schema(task) = None THEN None
    ELSE IF ~JsonLoads(output.output).ok
    THEN "Output is not a valid JSON object"
    ELSE IF validate_schema_raises(JsonLoads(output.output).value,
                                   output_json_schema(task))
    THEN "Output does not match task output schema"
    ELSE None

\* validate_output_format without the test for an unchanged value
validate_output_format_ungated(r, loading) ==
    IF loading
    THEN Ok([r EXCEPT !.has_last_validated_output = TRUE,
                      !.last_validated_output = r.output.output], FALSE)
    ELSE IF parent_task(r) = None
    THEN Ok(r, FALSE)
    ELSE LET error == TaskOutput_validate_output_format(r.output, parent_task(r))
             checked == output_json_schema(parent_task(r)) # None
         IN  IF error # None THEN Raise(r, error, checked)
             ELSE Ok([r EXCEPT !.has_last_validated_output = TRUE,
                               !.last_validated_output = r.output.output], checked)

\* validate_output_format that does not record the value it has accepted
validate_output_format_never_recording(r, loading) ==
    IF loading
    THEN Ok([r EXCEPT !.has_last_validated_output = TRUE,
                      !.last_validated_output = r.output.output], FALSE)
    ELSE IF r.has_last_validated_output /\ r.output.output = r.last_validated_output
    THEN Ok(r, FALSE)
    ELSE IF parent_task(r) = None
    THEN Ok(r, FALSE)
    ELSE LET error == TaskOutput_validate_output_format(r.output, parent_task(r))
             checked == output_json_schema(parent_task(r)) # None
         IN  IF error # None THEN Raise(r, error, checked)
             ELSE Ok(r, checked)

\* validate_output_format that records the value before looking for the
\* parent task
validate_output_format_recording_without_parent(r, loading) ==
    LET recorded == [r EXCEPT !.has_last_validated_output = TRUE,
                              !.last_validated_output = r.output.output]
    IN  IF loading THEN Ok(recorded, FALSE)
        ELSE IF r.has_last_validated_output
                /\ r.output.output = r.last_validated_output
        THEN Ok(r, FALSE)
        ELSE IF parent_task(r) = None
        THEN Ok(recorded, FALSE)
        ELSE LET error == TaskOutput_validate_output_format(r.output, parent_task(r))
                 checked == output_json_schema(parent_task(r)) # None
             IN  IF error # None THEN Raise(r, error, checked)
                 ELSE Ok(recorded, checked)

\* TaskRun.validate_output_format
validate_output_format(r, loading) ==
    IF loading
    THEN Ok([r EXCEPT !.has_last_validated_output = TRUE,
                      !.last_validated_output = r.output.output], FALSE)
    ELSE IF r.has_last_validated_output /\ r.output.output = r.last_validated_output
    THEN Ok(r, FALSE)
    ELSE IF parent_task(r) = None
    THEN Ok(r, FALSE)
    ELSE LET error == TaskOutput_validate_output_format(r.output, parent_task(r))
             checked == output_json_schema(parent_task(r)) # None
         IN  IF error # None THEN Raise(r, error, checked)
             ELSE Ok([r EXCEPT !.has_last_validated_output = TRUE,
                               !.last_validated_output = r.output.output], checked)

\* validate_repaired_output without its last check
validate_repaired_output_one_sided(r) ==
    IF r.repaired_output.present /\ r.repaired_output.has_rating
    THEN "Repaired output rating must be None"
    ELSE IF r.repair_instructions = None /\ r.repaired_output.present
    THEN "Repair instructions are required if providing a repaired output"
    ELSE None

\* TaskRun.validate_repaired_output: the error it raises, or None
validate_repaired_output(r) ==
    IF r.repaired_output.present /\ r.repaired_output.has_rating
    THEN "Repaired output rating must be None"
    ELSE IF r.repair_instructions = None /\ r.repaired_output.present
    THEN "Repair instructions are required if providing a repaired output"
    ELSE IF r.repair_instructions # None /\ ~r.repaired_output.present
    THEN "A repaired output is required if providing repair instructions"
    ELSE None

\* validate_input_source without the exemption of loaded instances
validate_input_source_ignoring_loaded(r, loading) ==
    IF ~strict_mode THEN None
    ELSE IF r.input_source = None
    THEN "input_source is required when strict mode is enabled"
    ELSE None

\* TaskRun.validate_input_source: the error it raises, or None
validate_input_source(r, loading) ==
    IF ~strict_mode THEN None
    ELSE IF loaded_from_file(r, loading) THEN None
    ELSE IF r.input_source = None
    THEN "input_source is required when strict mode is enabled"
    ELSE None

\* TaskRun.validate_tags: the error the loop raises at the first offending
\* tag, or None
RECURSIVE validate_tags_from(_, _)
validate_tags_from(tags, i) ==
    IF i > Len(tags) THEN None
    ELSE IF tags[i] = <<>> THEN "Tags cannot be empty strings"
    ELSE IF \E j \in 1..Len(tags[i]) : tags[i][j] = " "
    THEN "Tags cannot contain spaces. Try underscores."
    ELSE validate_tags_from(tags, i + 1)

validate_tags(r) == validate_tags_from(r.tags, 1)

\* One validation pass over a TaskRun: its mode="after" validators in the
\* order they are declared; the first error ends the pass.  The validators
\* act on the instance itself, so the attributes a validator has set stay
\* set when a later one raises.
ValidationPass(r, loading) ==
    LET vin == validate_input_format(r, loading)
        vout == validate_output_format(vin.run, loading)
        repaired == validate_repaired_output(vout.run)
        source == validate_input_source(vout.run, loading)
        structural == IF repaired # None THEN repaired
                      ELSE IF source # None THEN source
                      ELSE validate_tags(vout.run)
    IN  IF vin.error # None
        THEN [run |-> vin.run, error |-> vin.error,
              input_checked |-> vin.checked, output_checked |-> FALSE]
        ELSE IF vout.error # None
        THEN [run |-> vout.run, error |-> vout.error,
              input_checked |-> vin.checked, output_checked |-> vout.checked]
        ELSE [run |-> vout.run, error |-> structural,
              input_checked |-> vin.checked, output_checked |-> vout.checked]

\* The record of a validation pass: the operation, the instance as it was
\* handed to the validators (subject), and what the pass did
PassRecord(name, subject, loading, pass) ==
    [name |-> name, error |-> pass.error, loading |-> loading, subject |-> subject,
     input_checked |-> pass.input_checked, output_checked |-> pass.output_checked]

PassOps == {"construct_run", "load_run", "set_input", "set_output", "set_parent",
            "set_repair_instructions", "set_repaired_output",
            "set_input_source", "set_tags"}

\* A construction that ends in the constructor of the TaskOutput: the
\* TaskRun's validators have not run
OutputRefused(subject, error) ==
    [run |-> subject, error |-> error,
     input_checked |-> FALSE, output_checked |-> FALSE]

\* TaskRun(parent=..., input=..., output=TaskOutput(output=..., source=...),
\* ...): the TaskOutput is constructed, and validated, first
ConstructRun(input, output, output_source, parent, repair_instructions, repaired_output, input_source, tags) ==
    /\ ~run.exists
    /\ LET subject == NewTaskRun(input, TaskOutput(output, output_source), parent,
                                 repair_instructions, repaired_output,
                                 input_source, tags)
           refused == validate_output_source(subject.output, FALSE)
           pass == IF refused # None THEN OutputRefused(subject, refused)
                   ELSE ValidationPass(subject, FALSE)
       IN  /\ run' = IF pass.error = None THEN pass.run ELSE NoRun
           /\ op' = PassRecord("construct_run", subject, FALSE, pass)
    /\ UNCHANGED <<task_runs, next_id, build, ds, strict>>

\* TaskRun.load_from_file(path): validation with loading_from_file in the
\* context, which also marks the instance as loaded
LoadRun(input, output, output_source, parent, repair_instructions, repaired_output, input_source, tags) ==
    /\ ~run.exists
    /\ LET loaded_output == [TaskOutput(output, output_source)
                               EXCEPT !.loaded_from_file = TRUE]
           subject == [NewTaskRun(input, loaded_output, parent,
                                  repair_instructions, repaired_output,
                                  input_source, tags)
                         EXCEPT !.loaded_from_file = TRUE]
           refused == validate_output_source(subject.output, TRUE)
           pass == IF refused # None THEN OutputRefused(subject, refused)
                   ELSE ValidationPass(subject, TRUE)
       IN  /\ run' = IF pass.error = None THEN pass.run ELSE NoRun
           /\ op' = PassRecord("load_run", subject, TRUE, pass)
    /\ UNCHANGED <<task_runs, next_id, build, ds, strict>>

\* An assignment run.<field> = value on the existing instance
\* (validate_assignment): the instance takes the new value (subject), then
\* the validators run on it.  When they raise, the attributes they have set
\* stay; whether the assigned field keeps the new value or gets the old one
\* back is the framework's doing, and both outcomes are explored.
Assign(name, field, value) ==
    LET subject == [run EXCEPT ![field] = value]
        pass == ValidationPass(subject, FALSE)
        restored == [pass.run EXCEPT ![field] = run[field]]
    IN  /\ op' = PassRecord(name, subject, FALSE, pass)
        /\ IF pass.error = None
           THEN run' = pass.run
           ELSE run' \in {pass.run, restored}
        /\ UNCHANGED <<task_runs, next_id, build, ds, strict>>

\* run.input = text
SetInput(text) ==
    /\ run.exists
    /\ Assign("set_input", "input", text)

\* run.output = TaskOutput(output=text, source=source): when the constructor
\* of the TaskOutput raises, nothing is assigned
SetOutput(text, source) ==
    /\ run.exists
    /\ LET refused == validate_output_source(TaskOutput(text, source), FALSE)
       IN  IF refused # None
           THEN /\ op' = PassRecord("set_output",
                                    [run EXCEPT !.output = TaskOutput(text, source)],
                                    FALSE, OutputRefused(run, refused))
                /\ UNCHANGED <<task_runs, next_id, build, ds, run, strict>>
           ELSE Assign("set_output", "output", TaskOutput(text, source))

\* run.output.output = text: an assignment on the TaskOutput, whose own
\* validators run (validate_output_source); no validator of the TaskRun does
SetOutputInPlace(text) ==
    /\ run.exists
    /\ run.output.output # text
    /\ LET refused == validate_output_source(run.output, FALSE)
       IN  /\ op' = [name |-> "set_output_in_place", error |-> refused]
           /\ IF refused = None
              THEN run' = [run EXCEPT !.output.output = text]
              ELSE run' \in {run, [run EXCEPT !.output.output = text]}
    /\ UNCHANGED <<task_runs, next_id, build, ds, strict>>

\* run.parent = task, for a run that has no parent yet
SetParent(task) ==
    /\ run.exists
    /\ run.parent = None
    /\ Assign("set_parent", "parent", task)

\* run.repair_instructions = value
SetRepairInstructions(value) ==
    /\ run.exists
    /\ Assign("set_repair_instructions", "repair_instructions", value)

\* run.repaired_output = value
SetRepairedOutput(value) ==
    /\ run.exists
    /\ Assign("set_repaired_output", "repaired_output", value)

\* run.input_source = value
SetInputSource(value) ==
    /\ run.exists
    /\ Assign("set_input_source", "input_source", value)

\* run.tags = value
SetTags(value) ==
    /\ run.exists
    /\ Assign("set_tags", "tags", value)

\* set_strict_mode that can only switch the flag on
set_strict_mode_enabling_only(value) ==
    /\ strict' = (strict \/ value)
    /\ op' = [name |-> "set_strict_mode", error |-> None, value |-> value]
    /\ UNCHANGED <<task_runs, next_id, build, ds, run>>

\* set_strict_mode(value)
set_strict_mode(value) ==
    /\ strict' = value
    /\ op' = [name |-> "set_strict_mode", error |-> None, value |-> value]
    /\ UNCHANGED <<task_runs, next_id, build, ds, run>>

---------------------------------------------------------------------------
(* Operations on the task and the dataset split *)

\* A run is saved under the task
AddRun(profile) ==
    /\ Len(task_runs) < MaxRuns
    /\ task_runs' = Append(task_runs, TaskRunOf(next_id, profile))
    /\ next_id' = next_id + 1
    /\ op' = [name |-> "add_run", error |-> None]
    /\ UNCHANGED <<build, ds, run, strict>>

BuildRecord(splits, filter, shuffled) ==
    [called |-> TRUE, splits |-> splits, filter |-> filter,
     valid_ids |-> shuffled, split_contents |-> SplitShuffled(shuffled, splits),
     raised |-> FALSE]

\* DatasetSplit.build_split_contents(task, splits, filter), called directly
BuildSplitContents(splits, filter) ==
    /\ \E shuffled \in ShuffleOutcomes(FilteredIds(task_runs, filter)) :
           build' = BuildRecord(splits, filter, shuffled)
    /\ op' = [name |-> "build_split_contents", error |-> None]
    /\ UNCHANGED <<task_runs, next_id, ds, run, strict>>

\* DatasetSplit.from_task(name, task, splits, filter): build the contents,
\* then construct the DatasetSplit, whose validator may raise
FromTask(splits, filter) ==
    /\ \E shuffled \in ShuffleOutcomes(FilteredIds(task_runs, filter)) :
           /\ build' = BuildRecord(splits, filter, shuffled)
           /\ IF validate_split_percentages_raises(splits)
              THEN /\ ds' = ds
                   /\ op' = [name |-> "from_task", error |-> "split_percentages"]
              ELSE /\ ds' = [exists |-> TRUE, has_parent |-> TRUE, splits |-> splits,
                             split_contents |-> build'.split_contents]
                   /\ op' = [name |-> "from_task", error |-> None]
    /\ UNCHANGED <<task_runs, next_id, run, strict>>

\* DatasetSplit(name=..., splits=splits, split_contents=split_contents):
\* construction runs validate_split_percentages
ConstructSplit(splits, split_contents) ==
    /\ op.name = "init"
    /\ IF validate_split_percentages_raises(splits)
       THEN /\ ds' = ds
            /\ op' = [name |-> "construct", error |-> "split_percentages",
                      splits |-> splits]
       ELSE /\ ds' = [exists |-> TRUE, has_parent |-> FALSE, splits |-> splits,
                      split_contents |-> split_contents]
            /\ op' = [name |-> "construct", error |-> None, splits |-> splits]
    /\ UNCHANGED <<task_runs, next_id, build, run, strict>>

\* DatasetSplit.parent_task
DatasetSplit_parent_task(d) == IF d.has_parent THEN "task" ELSE None

\* The set of the items of a list
Items(ids) == {ids[i] : i \in 1..Len(ids)}

RECURSIVE SumOver(_, _)
SumOver(f, keys) ==
    IF keys = {} THEN 0
    ELSE LET k == CHOOSE x \in keys : TRUE
         IN  f[k] + SumOver(f, keys \ {k})

\* missing_count that does not look at the task's runs
missing_count_ignoring_runs(d, runs) ==
    Cardinality(UNION {Items(d.split_contents[k]) : k \in DOMAIN d.split_contents})

\* missing_count that counts an ID once for every list it is in
missing_count_per_list(d, runs) ==
    LET all_ids == {runs[i].id : i \in 1..Len(runs)}
    IN  SumOver([k \in DOMAIN d.split_contents |->
                    Cardinality(Items(d.split_contents[k]) \ all_ids)],
                DOMAIN d.split_contents)

\* DatasetSplit.missing_count, past the parent check: runs is
\* parent.runs(readonly=True)
missing_count(d, runs) ==
    LET all_ids == {runs[i].id : i \in 1..Len(runs)}
        all_ids_in_splits ==
            UNION {Items(d.split_contents[k]) : k \in DOMAIN d.split_contents}
        missing == all_ids_in_splits \ all_ids
    IN  Cardinality(missing)

\* split.missing_count()
MissingCount ==
    /\ ds.exists
    /\ IF DatasetSplit_parent_task(ds) = None
       THEN op' = [name |-> "missing_count",
                   error |-> "DatasetSplit has no parent task", result |-> 0]
       ELSE op' = [name |-> "missing_count", error |-> None,
                   result |-> missing_count(ds, task_runs)]
    /\ UNCHANGED <<task_runs, next_id, build, ds, run, strict>>

\* DatasetSplit(parent=task or None, splits=..., split_contents=...) with
\* contents made by hand
ConstructSplitUnder(has_parent, splits, split_contents) ==
    /\ IF validate_split_percentages_raises(splits)
       THEN /\ ds' = ds
            /\ op' = [name |-> "construct", error |-> "split_percentages",
                      splits |-> splits]
       ELSE /\ ds' = [exists |-> TRUE, has_parent |-> has_parent, splits |-> splits,
                      split_contents |-> split_contents]
            /\ op' = [name |-> "construct", error |-> None, splits |-> splits]
    /\ UNCHANGED <<task_runs, next_id, build, run, strict>>

\* A run of the task is removed from storage: task.runs() no longer
\* yields it
DeleteRun(i) ==
    /\ i \in 1..Len(task_runs)
    /\ task_runs' = [j \in 1..(Len(task_runs) - 1) |->
                        IF j < i THEN task_runs[j] ELSE task_runs[j + 1]]
    /\ op' = [name |-> "delete_run", error |-> None]
    /\ UNCHANGED <<next_id, build, ds, run, strict>>

\* split.splits = splits on the existing DatasetSplit (validation on
\* assignment): validate_split_percentages runs on the instance holding the
\* new list; when it raises, whether the field keeps the new list or gets
\* the old one back is the framework's doing, and both outcomes are explored
SetSplits(splits) ==
    /\ ds.exists
    /\ IF validate_split_percentages_raises(splits)
       THEN /\ ds' \in {ds, [ds EXCEPT !.splits = splits]}
            /\ op' = [name |-> "set_splits", error |-> "split_percentages"]
       ELSE /\ ds' = [ds EXCEPT !.splits = splits]
            /\ op' = [name |-> "set_splits", error |-> None]
    /\ UNCHANGED <<task_runs, next_id, build, run, strict>>

\* split.splits.append(definition): the list object the field holds is
\* changed in place; no validator of the DatasetSplit runs
AppendSplit(definition) ==
    /\ ds.exists
    /\ Len(ds.splits) < MaxSplits
    /\ ds' = [ds EXCEPT !.splits = Append(ds.splits, definition)]
    /\ op' = [name |-> "append_split", error |-> None]
    /\ UNCHANGED <<task_runs, next_id, build, run, strict>>

\* del split.splits[i]
RemoveSplit(i) ==
    /\ ds.exists
    /\ i \in 1..Len(ds.splits)
    /\ LET splits == [j \in 1..(Len(ds.splits) - 1) |->
                         IF j < i THEN ds.splits[j] ELSE ds.splits[j + 1]]
       IN  /\ ds' = [ds EXCEPT !.splits = splits]
           /\ op' = [name |-> "remove_split", error |-> None]
    /\ UNCHANGED <<task_runs, next_id, build, run, strict>>

\* split.splits[i].percentage = percentage: DatasetSplitDefinition is a
\* plain BaseModel, an assignment to its field runs no validation
SetPercentage(i, percentage) ==
    /\ ds.exists
    /\ i \in 1..Len(ds.splits)
    /\ LET splits == [ds.splits EXCEPT ![i].percentage = percentage]
       IN  /\ ds' = [ds EXCEPT !.splits = splits]
           /\ op' = [name |-> "set_percentage", error |-> None]
    /\ UNCHANGED <<task_runs, next_id, build, run, strict>>

---------------------------------------------------------------------------
(* DataSource *)

\* A property value: a str (possibly empty) or an int
StrValue(text) == [type |-> "str", text |-> text]
IntValue(text) == [type |-> "int", text |-> text]

DataSourceProperty(name, type, required_for, not_allowed_for) ==
    [name |-> name, type |-> type, required_for |-> required_for,
     not_allowed_for |-> not_allowed_for]

\* DataSource._data_source_properties
data_source_properties ==
    <<DataSourceProperty("created_by", "str", {"human"}, {"synthetic"}),
      DataSourceProperty("model_name", "str", {"synthetic"}, {"human"}),
      DataSourceProperty("model_provider", "str", {"synthetic"}, {"human"}),
      DataSourceProperty("adapter_name", "str", {"synthetic"}, {"human"}),
      DataSourceProperty("prompt_builder_name", "str", {}, {"human"}),
      DataSourceProperty("prompt_id", "str", {}, {"human"})>>

\* DataSource.validate_type: the error raised, or None
validate_type(type) ==
    IF type \notin DataSourceTypes THEN "Invalid data source type" ELSE None

RECURSIVE validate_properties_required_only_from(_, _, _)
\* validate_properties without the check of properties that are not allowed
validate_properties_required_only_from(type, properties, i) ==
    IF i > Len(data_source_properties) THEN None
    ELSE LET prop == data_source_properties[i]
         IN  IF prop.name \in DOMAIN properties
                /\ properties[prop.name].type # prop.type
             THEN "must be of type"
             ELSE IF type \in prop.required_for /\ prop.name \notin DOMAIN properties
             THEN "is required"
             ELSE validate_properties_required_only_from(type, properties, i + 1)

validate_properties_required_only(type, properties) ==
    validate_properties_required_only_from(type, properties, 1)

RECURSIVE validate_properties_from(_, _, _)
\* "for prop in self._data_source_properties": the loop body at index i
validate_properties_from(type, properties, i) ==
    IF i > Len(data_source_properties) THEN None
    ELSE LET prop == data_source_properties[i]
         IN  IF prop.name \in DOMAIN properties
                /\ properties[prop.name].type # prop.type
             THEN "must be of type"
             ELSE IF type \in prop.required_for
             THEN IF prop.name \notin DOMAIN properties
                  THEN "is required"
                  ELSE validate_properties_from(type, properties, i + 1)
             ELSE IF type \in prop.not_allowed_for /\ prop.name \in DOMAIN properties
             THEN "is not allowed"
             ELSE validate_properties_from(type, properties, i + 1)

\* DataSource.validate_properties: the error raised, or None
validate_properties(type, properties) ==
    validate_properties_from(type, properties, 1)

\* DataSource.validate_no_empty_properties: the error raised, or None
validate_no_empty_properties(properties) ==
    IF \E prop \in DOMAIN properties :
           properties[prop].type = "str" /\ properties[prop].text = ""
    THEN "must be a non-empty string"
    ELSE None

\* DataSource(type=type, properties=properties): the three validators in
\* the order of their declaration
ConstructDataSource(type, properties) ==
    /\ op.name = "init"
    /\ LET e1 == validate_type(type)
           e2 == validate_properties(type, properties)
           e3 == validate_no_empty_properties(properties)
       IN  op' = [name |-> "construct_source",
                  error |-> IF e1 # None THEN e1 ELSE IF e2 # None THEN e2 ELSE e3,
                  type |-> type, properties |-> properties]
    /\ UNCHANGED <<task_runs, next_id, build, ds, run, strict>>

\* The property names and values sources are constructed with: the
\* registered names and one unregistered
PropertyNames ==
    {data_source_properties[i].name : i \in 1..Len(data_source_properties)}
        \cup {"note"}
PropertyValues == {StrValue("gpt"), StrValue(""), IntValue("1")}
PropertyMaps == UNION {[names -> PropertyValues] : names \in SUBSET PropertyNames}

---------------------------------------------------------------------------
(* TaskOutputRating: the data given to its constructor and its validators *)

RatingTypes == {"five_star", "pass_fail", "pass_fail_critical", "custom"}

\* A rating value: None, or the float halves/2 (so 2.5 is Float(5))
NoValue == [is_none |-> TRUE, halves |-> 0]
Float(halves) == [is_none |-> FALSE, halves |-> halves]
is_integer(value) == value.halves % 2 = 0

\* An entry of requirement_ratings as given: a bare number (the old format)
\* or a RequirementRating {value, type}
OldFormat(halves) == [numeric |-> TRUE, value |-> Float(halves), type |-> "five_star"]
RequirementRating(halves, type) ==
    [numeric |-> FALSE, value |-> Float(halves), type |-> type]

\* Requirement IDs are 1..MaxRequirements here (strings in the code); a
\* requirement_ratings dict is a function on a set of them
RequirementIds == 1..MaxRequirements

\* upgrade_old_format that rewrites the numbers of a mixed map too
upgrade_old_format_any_number(req_ratings) ==
    [k \in DOMAIN req_ratings |->
        IF req_ratings[k].numeric
        THEN RequirementRating(req_ratings[k].value.halves, "five_star")
        ELSE req_ratings[k]]

\* TaskOutputRating.upgrade_old_format (mode="before"), on the
\* requirement_ratings of the data
upgrade_old_format(req_ratings) ==
    IF DOMAIN req_ratings # {} /\ \A k \in DOMAIN req_ratings : req_ratings[k].numeric
    THEN [k \in DOMAIN req_ratings |->
             RequirementRating(req_ratings[k].value.halves, "five_star")]
    ELSE req_ratings

\* The field validation of requirement_ratings: Dict[ID_TYPE,
\* RequirementRating] refuses an entry that is a bare number
requirement_ratings_field_error(req_ratings) ==
    IF \E k \in DOMAIN req_ratings : req_ratings[k].numeric
    THEN "requirement_ratings: not a RequirementRating"
    ELSE None

\* _validate_five_star, _validate_pass_fail, _validate_pass_fail_critical:
\* the error raised, or None
validate_five_star(rating) ==
    IF rating.is_none \/ ~is_integer(rating)
    THEN "must be an integer value (1-5)"
    ELSE IF rating.halves < 2 * 1 \/ rating.halves > 2 * 5
    THEN "must be between 1 and 5 stars"
    ELSE None

validate_pass_fail(rating) ==
    IF rating.is_none \/ ~is_integer(rating)
    THEN "must be an integer value (0 or 1)"
    ELSE IF rating.halves \notin {2 * 0, 2 * 1}
    THEN "must be 0 (fail) or 1 (pass)"
    ELSE None

validate_pass_fail_critical(rating) ==
    IF rating.is_none \/ ~is_integer(rating)
    THEN "must be an integer value (-1, 0, or 1)"
    ELSE IF rating.halves \notin {2 * (-1), 2 * 0, 2 * 1}
    THEN "must be -1 (critical fail), 0 (fail), or 1 (pass)"
    ELSE None

\* _validate_rating that checks the range for five_star only
validate_rating_of_type_five_star_only(type, rating) ==
    IF type = "five_star" THEN validate_five_star(rating)
    ELSE None

\* TaskOutputRating._validate_rating(type, rating, rating_name)
validate_rating_of_type(type, rating) ==
    IF type = "five_star" THEN validate_five_star(rating)
    ELSE IF type = "pass_fail" THEN validate_pass_fail(rating)
    ELSE IF type = "pass_fail_critical" THEN validate_pass_fail_critical(rating)
    ELSE None

\* TaskOutputRating.validate_rating (mode="after"): the overall value when
\* it is not None, then every requirement rating
validate_rating(type, value, requirement_ratings) ==
    IF type \notin RatingTypes THEN "Invalid rating type"
    ELSE IF ~value.is_none /\ validate_rating_of_type(type, value) # None
    THEN validate_rating_of_type(type, value)
    ELSE IF \E k \in DOMAIN requirement_ratings :
                validate_rating_of_type(requirement_ratings[k].type,
                                        requirement_ratings[k].value) # None
    THEN "requirement rating"
    ELSE None

\* TaskOutputRating(type=type, value=value, requirement_ratings=...): the
\* before-validator, the field validation, then the after-validator
ConstructRating(type, value, req_ratings) ==
    /\ op.name = "init"
    /\ LET upgraded == upgrade_old_format(req_ratings)
           field_error == requirement_ratings_field_error(upgraded)
           error == IF field_error # None THEN field_error
                    ELSE validate_rating(type, value, upgraded)
       IN  op' = [name |-> "construct_rating", error |-> error,
                  type |-> type, value |-> value, req_ratings |-> req_ratings,
                  requirement_ratings |-> upgraded]
    /\ UNCHANGED <<task_runs, next_id, build, ds, run, strict>>

\* The values a rating is constructed from: None, -1, 0, ..., 6 and 2.5
RatingValues == {NoValue, Float(5)} \cup {Float(2 * v) : v \in -1..6}

\* Entries of requirement_ratings: the old-format numbers 4 and 6, and
\* typed ratings, legal and not
RequirementEntries ==
    {OldFormat(8), OldFormat(12),
     RequirementRating(8, "five_star"), RequirementRating(0, "five_star"),
     RequirementRating(2, "pass_fail"), RequirementRating(-2, "pass_fail"),
     RequirementRating(-2, "pass_fail_critical"), RequirementRating(5, "custom")}

RequirementRatingMaps ==
    UNION {[ids -> RequirementEntries] : ids \in SUBSET RequirementIds}

\* The ratings a stored run can carry: every TaskOutputRating with an
\* integral or absent value that validate_rating accepts
RatedProfiles ==
    {[repaired_output |-> ro, rating |-> rating] :
        ro \in {None, "repaired"},
        rating \in {NoRating}
           \cup {[NoRating EXCEPT !.present = TRUE, !.type = t] : t \in RatingTypes}
           \cup {Rating(t, v) : t \in RatingTypes, v \in -1..6}}

ValidRatedProfiles ==
    {p \in RatedProfiles :
        ~p.rating.present
        \/ validate_rating(p.rating.type,
                           IF p.rating.has_value THEN Float(2 * p.rating.value)
                           ELSE NoValue,
                           <<>>) = None}

\* filter(task_run), for a dataset filter and a run of the task
ApplyDatasetFilter(filter, profile) ==
    /\ op.name = "init"
    /\ op' = [name |-> "filter", error |-> None, filter |-> filter,
              task_run |-> TaskRunOf(1, profile),
              accepted |-> ApplyFilter(filter, TaskRunOf(1, profile))]
    /\ UNCHANGED <<task_runs, next_id, build, ds, run, strict>>

InitTask ==
    /\ task_runs \in {<<>>, ExampleTaskRuns}
    /\ next_id = Len(task_runs) + 1
    /\ build = NoBuild
    /\ ds = NoSplit
    /\ op = [name |-> "init", error |-> None]

InitSplit == InitTask /\ run = NoRun /\ strict = FALSE

InitRun ==
    /\ task_runs = <<>>
    /\ next_id = 1
    /\ build = NoBuild
    /\ ds = NoSplit
    /\ op = [name |-> "init", error |-> None]
    /\ run = NoRun
    /\ strict = FALSE

\* The schema checks and the change cache: runs with the default
\* input_source, output source and tags, strict mode left off
NextRun ==
    \/ \E input \in Texts, output \in Texts, parent \in Tasks \cup {None},
          ri \in RepairInstructions, ro \in RepairedOutputs :
          ConstructRun(input, output, None, parent, ri, ro, None, <<>>)
    \/ \E input \in Texts, output \in Texts, parent \in Tasks \cup {None},
          ri \in RepairInstructions, ro \in RepairedOutputs :
          LoadRun(input, output, None, parent, ri, ro, None, <<>>)
    \/ \E text \in Texts : SetInput(text)
    \/ \E text \in Texts : SetOutput(text, None)
    \/ \E text \in Texts : SetOutputInPlace(text)
    \/ \E task \in Tasks : SetParent(task)
    \/ \E value \in RepairInstructions : SetRepairInstructions(value)
    \/ \E value \in RepairedOutputs : SetRepairedOutput(value)

SpecRun == InitRun /\ [][NextRun]_vars

\* A run constructed (not loaded) under a task and kept under it: its
\* fields are assigned, its output changed in place
NextFresh ==
    \/ \E input \in Texts, output \in Texts, parent \in Tasks,
          ri \in RepairInstructions, ro \in RepairedOutputs :
          ConstructRun(input, output, None, parent, ri, ro, None, <<>>)
    \/ \E text \in Texts : SetInput(text)
    \/ \E text \in Texts : SetOutput(text, None)
    \/ \E text \in Texts : SetOutputInPlace(text)
    \/ \E value \in RepairInstructions : SetRepairInstructions(value)
    \/ \E value \in RepairedOutputs : SetRepairedOutput(value)

SpecFresh == InitRun /\ [][NextFresh]_vars

\* The tag lists a run is given: up to MaxTags tags
TagLists == UNION {[1..n -> Tags] : n \in 0..MaxTags}

\* Runs without a parent task that differ in their tags only
NextTags ==
    \/ \E tags \in TagLists :
          ConstructRun(TextPlain, TextPlain, None, None, None, NoRepairedOutput,
                       None, tags)
    \/ \E tags \in TagLists :
          LoadRun(TextPlain, TextPlain, None, None, None, NoRepairedOutput,
                  None, tags)
    \/ \E tags \in TagLists : SetTags(tags)

SpecTags == InitRun /\ [][NextTags]_vars

\* Ratings constructed from every type, value and requirement map, and the
\* dataset filters applied to runs carrying the valid ones; one
\* construction or one filter call is explored per behaviour
NextRating ==
    \/ \E type \in RatingTypes, value \in RatingValues,
          req_ratings \in RequirementRatingMaps :
          ConstructRating(type, value, req_ratings)
    \/ \E filter \in DatasetFilters, profile \in ValidRatedProfiles :
          ApplyDatasetFilter(filter, profile)

SpecRating == InitRun /\ [][NextRating]_vars

\* One DataSource is constructed per behaviour
NextSource ==
    \E type \in DataSourceTypes, properties \in PropertyMaps :
        ConstructDataSource(type, properties)

SpecSource == InitRun /\ [][NextSource]_vars

\* The values the runs under strict mode are made of
StrictTexts == {TextA1, TextPlain}
StrictParents == {None, "task_structured"}
InputSources == {None, "human"}
OutputSources == {None, "synthetic"}
StrictTagLists == {<<>>, <<Tag_a_b, Tag_c>>, <<Tag_c, TagSpace>>, <<TagTab>>}

\* Strict mode and the structural checks: runs with and without sources,
\* repairs and tags, constructed, loaded and mutated while the flag is
\* toggled
NextStrict ==
    \/ \E value \in BOOLEAN : set_strict_mode(value)
    \/ \E output \in StrictTexts, output_source \in OutputSources,
          parent \in StrictParents, ri \in RepairInstructions,
          ro \in RepairedOutputs, input_source \in InputSources,
          tags \in StrictTagLists :
          ConstructRun(TextA1, output, output_source, parent, ri, ro,
                       input_source, tags)
    \/ \E output \in StrictTexts, output_source \in OutputSources,
          parent \in StrictParents, ri \in RepairInstructions,
          ro \in RepairedOutputs, input_source \in InputSources,
          tags \in StrictTagLists :
          LoadRun(TextA1, output, output_source, parent, ri, ro,
                  input_source, tags)
    \/ \E text \in {TextA1} : SetInput(text)
    \/ \E text \in StrictTexts, source \in OutputSources : SetOutput(text, source)
    \/ \E text \in StrictTexts : SetOutputInPlace(text)
    \/ \E task \in StrictParents \ {None} : SetParent(task)
    \/ \E value \in RepairInstructions : SetRepairInstructions(value)
    \/ \E value \in RepairedOutputs : SetRepairedOutput(value)
    \/ \E value \in InputSources : SetInputSource(value)
    \/ \E value \in StrictTagLists : SetTags(value)

SpecStrict == InitRun /\ [][NextStrict]_vars

\* One call of the builder is explored per behaviour
CallBuildSplitContents ==
    /\ ~build.called
    /\ \E splits \in SplitLists, filter \in DatasetFilters :
          BuildSplitContents(splits, filter)

CallFromTask ==
    /\ ~build.called
    /\ \E splits \in SplitLists, filter \in DatasetFilters :
          FromTask(splits, filter)

NextSplit ==
    \/ ~build.called /\ \E profile \in RunProfiles : AddRun(profile)
    \/ CallBuildSplitContents
    \/ CallFromTask

SpecSplit == InitSplit /\ [][NextSplit]_vars

NextPct == \E splits \in FineSplitLists : ConstructSplit(splits, EmptyDict)

SpecPct == InitSplit /\ [][NextPct]_vars

\* Hand-made contents: lists of at most MaxListed run IDs under the names
\* of the train/test definition
ListedIds == UNION {[1..n -> 1..MaxRunIds] : n \in 0..MaxListed}
HandMadeContents == [{"train", "test"} -> ListedIds]
CountedSplitLists == {Train80Test20SplitDefinition, <<SplitDef("train", Pct(50, 0))>>}

InitMissing == InitSplit /\ task_runs = <<>>

\* Runs come and go under the task while splits are made and counted
NextMissing ==
    \/ next_id <= MaxRunIds /\ AddRun([repaired_output |-> None, rating |-> NoRating])
    \/ \E i \in 1..MaxRuns : DeleteRun(i)
    \/ \E has_parent \in BOOLEAN, splits \in CountedSplitLists,
          split_contents \in HandMadeContents :
          ConstructSplitUnder(has_parent, splits, split_contents)
    \/ MissingCount

SpecMissing == InitMissing /\ [][NextMissing]_vars

\* The split lists a split is built from before runs come and go: the
\* standard ones and two with a repeated name
LaterSplitLists ==
    StandardSplitLists
        \cup {<<SplitDef("train", Pct(20, 0)), SplitDef("train", Pct(80, 0))>>,
               <<SplitDef("train", Pct(50, 0)), SplitDef("test", Pct(20, 0))>>}

\* Runs are saved, a split is built from the task once, then runs are
\* added and removed while the split is counted
NextLater ==
    \/ next_id <= MaxLaterIds /\ \E profile \in RunProfiles : AddRun(profile)
    \/ \E i \in 1..MaxRuns : DeleteRun(i)
    \/ ~build.called /\ \E splits \in LaterSplitLists, filter \in DatasetFilters :
                            FromTask(splits, filter)
    \/ MissingCount

SpecLater == InitMissing /\ [][NextLater]_vars

\* The definitions a splits list is changed with
MutationPcts == {Pct(0, 0), Pct(20, 0), Pct(50, 0), Pct(80, 0)}
MutationDefs == {SplitDef(name, p) : name \in {"train", "test", "val"}, p \in MutationPcts}
MutationLists ==
    StandardSplitLists \cup UNION {[1..m -> MutationDefs] : m \in 0..2}

\* A DatasetSplit is constructed, then its splits list is reassigned and
\* changed in place
NextMutate ==
    \/ \E splits \in MutationLists : ConstructSplit(splits, EmptyDict)
    \/ \E splits \in MutationLists : SetSplits(splits)
    \/ \E definition \in MutationDefs : AppendSplit(definition)
    \/ \E i \in 1..MaxSplits : RemoveSplit(i)
    \/ \E i \in 1..MaxSplits, percentage \in MutationPcts : SetPercentage(i, percentage)

SpecMutate == InitMissing /\ [][NextMutate]_vars

---------------------------------------------------------------------------
(* Properties of the dataset split builder *)

\* The IDs of the task's runs that the filter of the last build accepts
AcceptedIds == {task_runs[i].id : i \in {j \in 1..Len(task_runs) :
                                              ApplyFilter(build.filter, task_runs[j])}}

\* The places <<name, position>> of a contents map that hold id
PlacesOf(contents, id) ==
    {pl \in UNION {{<<name, k>> : k \in 1..Len(contents[name])} : name \in DOMAIN contents} :
        contents[pl[1]][pl[2]] = id}

AllPlaces(contents) ==
    UNION {{<<name, k>> : k \in 1..Len(contents[name])} : name \in DOMAIN contents}

\* The sum of the hundredths of a list of definitions (all of the lists of
\* SplitLists have a zero fine part)
RECURSIVE HundredthsOf(_)
HundredthsOf(splits) ==
    IF splits = <<>> THEN 0 ELSE Head(splits).percentage.c + HundredthsOf(Tail(splits))

DistinctNames(splits) ==
    \A i, j \in 1..Len(splits) : splits[i].name = splits[j].name => i = j

\* C1 (as claimed): for a non-empty list of split definitions whose
\* percentages sum to 1.0, the contents map returned by build_split_contents
\* is a partition of the filtered run IDs: every accepted ID is at exactly one
\* place of exactly one split, no other ID appears, and the number of assigned
\* IDs is the filtered count.
C1_Partition ==
    (build.called /\ build.splits # <<>> /\ HundredthsOf(build.splits) = PctDen)
    => /\ \A id \in AcceptedIds : Cardinality(PlacesOf(build.split_contents, id)) = 1
       /\ \A pl \in AllPlaces(build.split_contents) :
              build.split_contents[pl[1]][pl[2]] \in AcceptedIds
       /\ Cardinality(AllPlaces(build.split_contents)) = Cardinality(AcceptedIds)

\* round(n * c/100), ties to even, stated as the nearest integer
NearestTiesEven(n, c) ==
    CHOOSE k \in 0..n :
        \/ 2 * Abs(n * c - PctDen * k) < PctDen
        \/ 2 * Abs(n * c - PctDen * k) = PctDen /\ k % 2 = 0

RECURSIVE RoundedBefore(_, _, _)
\* The sum of round(n * percentage) over the definitions before index i
RoundedBefore(n, splits, i) ==
    IF i <= 1 THEN 0
    ELSE RoundedBefore(n, splits, i - 1) + NearestTiesEven(n, splits[i - 1].percentage.c)

\* The last definition of the list that carries the name
LastWithName(splits, name) ==
    CHOOSE i \in 1..Len(splits) :
        /\ splits[i].name = name
        /\ \A j \in (i + 1)..Len(splits) : splits[j].name # name

\* list holds exactly the items first+1 .. first+count of ids
IsRun(list, ids, first, count) ==
    /\ Len(list) = count
    /\ first + count <= Len(ids)
    /\ \A k \in 1..count : list[k] = ids[first + k]

\* C2 (as claimed), stated for its most favourable case, a list with
\* pairwise distinct names whose percentages sum to 1.0: every definition but
\* the last receives exactly the next round(n * percentage) IDs of the
\* shuffled sequence, and the last one receives all that remain.
C2_ExactlyRounded ==
    (build.called /\ build.splits # <<>> /\ DistinctNames(build.splits)
        /\ HundredthsOf(build.splits) = PctDen)
    => LET n == Len(build.valid_ids)
           L == Len(build.splits)
       IN  /\ \A i \in 1..(L - 1) :
                  IsRun(build.split_contents[build.splits[i].name], build.valid_ids,
                        RoundedBefore(n, build.splits, i),
                        NearestTiesEven(n, build.splits[i].percentage.c))
           /\ RoundedBefore(n, build.splits, L) <= n
           /\ IsRun(build.split_contents[build.splits[L].name], build.valid_ids,
                    RoundedBefore(n, build.splits, L),
                    n - RoundedBefore(n, build.splits, L))

\* C2 (amended): the contents map has exactly the names of the definitions,
\* and each name holds the slice of the last definition that carries it: for a
\* definition before the last one the next min(round(n * percentage),
\* remaining) IDs of the shuffled sequence, in shuffled order, where the
\* cursor advances by round(n * percentage) per definition; for the last
\* definition all IDs from the cursor on.  10 filtered IDs with
\* [(train, 0.8), (test, 0.2)] give 8 IDs to train and 2 to test.
C2_ClampedRounded ==
    build.called
    => LET n == Len(build.valid_ids)
           L == Len(build.splits)
           sc == build.split_contents
       IN  /\ DOMAIN sc = {build.splits[i].name : i \in 1..L}
           /\ \A name \in DOMAIN sc :
                  LET i == LastWithName(build.splits, name)
                      first == Min(RoundedBefore(n, build.splits, i), n)
                      want == IF i = L THEN n - first
                              ELSE Min(NearestTiesEven(n, build.splits[i].percentage.c),
                                       n - first)
                  IN  IsRun(sc[name], build.valid_ids, first, want)
           /\ (n = 10 /\ build.splits = Train80Test20SplitDefinition)
                  => /\ Len(sc["train"]) = 8
                     /\ Len(sc["test"]) = 2

\* C2 witness: the 10-run example was built, and so was a list whose
\* rounded sizes exceed what remains
C2_Witness_Example ==
    /\ build.called
    /\ Len(build.valid_ids) = 10
    /\ build.splits = Train80Test20SplitDefinition
    /\ Len(build.split_contents["train"]) = 8

\* C3 (as claimed): a call of build_split_contents with percentages that do
\* not sum to 1.0 raises a validation error and returns no contents map.
C3_BuildRaises ==
    (build.called /\ op.name = "build_split_contents"
        /\ HundredthsOf(build.splits) # PctDen)
    => build.raised

\* C3 (amended): build_split_contents itself checks nothing and returns a
\* contents map for any list; it is from_task that fails with the validation
\* error of the DatasetSplit constructor, creating no DatasetSplit, whenever
\* the percentages do not sum to 1.0 (the empty list included), and that
\* succeeds with the built contents when they do.
C3_FromTaskRaises ==
    /\ op.name = "build_split_contents" => (op.error = None /\ ~build.raised)
    /\ (op.name = "from_task" /\ HundredthsOf(build.splits) # PctDen)
          => (op.error = "split_percentages" /\ ~ds.exists)
    /\ (op.name = "from_task" /\ HundredthsOf(build.splits) = PctDen)
          => /\ op.error = None
             /\ ds.exists
             /\ ds.splits = build.splits
             /\ ds.split_contents = build.split_contents

\* C3 witness: from_task was called with the empty list and failed
C3_Witness_EmptyList ==
    /\ op.name = "from_task"
    /\ build.splits = <<>>
    /\ op.error = "split_percentages"

\* C4: constructing a DatasetSplit fails when the percentages sum to 0.99 or
\* to 1.01, or to any value further than 1e-9 from 1.0, and succeeds when
\* they sum to 1.0 within 1e-9.
C4_SumTolerance ==
    op.name = "construct"
    => LET total == SumPercentages(op.splits)
           within == total.c = PctDen /\ Abs(total.f) <= RelTolUnits
       IN  /\ (total \in {Pct(99, 0), Pct(101, 0)}) => op.error = "split_percentages"
           /\ within => (op.error = None /\ ds.exists /\ ds.splits = op.splits)
           /\ ~within => (op.error = "split_percentages" /\ ~ds.exists)

\* C4 witness: a list summing to 1.0 - 0.9e-9 was accepted
C4_Witness_NearOne ==
    /\ op.name = "construct"
    /\ SumPercentages(op.splits) = Pct(100, -9)
    /\ op.error = None

---------------------------------------------------------------------------
(* Claims about the validation passes of a TaskRun *)

IsPass(o) == o.name \in PassOps
IsAssign(o) == o.name \in PassOps \ {"construct_run", "load_run"}

InputErrors ==
    {"Input is not a valid JSON object", "Input does not match task input schema"}
OutputErrors ==
    {"Output is not a valid JSON object", "Output does not match task output schema"}
SchemaErrors == InputErrors \cup OutputErrors

DeclaresInputSchema(r) ==
    r.parent # None /\ input_json_schema(r.parent) # None
DeclaresOutputSchema(r) ==
    r.parent # None /\ output_json_schema(r.parent) # None

\* The value differs from the last one a pass recorded (or none is recorded)
InputNotRecorded(r) ==
    ~(r.has_last_validated_input /\ r.input = r.last_validated_input)
OutputNotRecorded(r) ==
    ~(r.has_last_validated_output /\ r.output.output = r.last_validated_output)

\* Two consecutive passes on the same instance, the second one on an
\* unchanged input (resp. output.output)
ConsecutivePasses ==
    /\ IsPass(op) /\ run.exists /\ IsAssign(op')
    /\ op.subject.parent = op'.subject.parent
InputUnchanged ==
    op.subject.input = run.input /\ op'.subject.input = run.input
OutputUnchanged ==
    /\ op.subject.output.output = run.output.output
    /\ op'.subject.output.output = run.output.output

\* C5 (as claimed): for a run attached to a task that declares a schema, two
\* consecutive validation passes with an unchanged output.output (resp.
\* input) invoke the schema validator on that value only once, and a pass
\* after the value was changed to a different string invokes it again.
C5_OncePerValue ==
    [][ConsecutivePasses =>
          /\ (DeclaresInputSchema(op'.subject) /\ InputUnchanged)
                => ~(op.input_checked /\ op'.input_checked)
          /\ (DeclaresOutputSchema(op'.subject) /\ OutputUnchanged)
                => ~(op.output_checked /\ op'.output_checked)
          /\ (DeclaresInputSchema(op'.subject) /\ op'.subject.input # run.input)
                => op'.input_checked
          /\ (DeclaresOutputSchema(op'.subject)
                /\ op'.subject.output.output # run.output.output)
                => op'.output_checked]_vars

\* C5 (amended): for a run attached to a task that declares a schema, after
\* a pass that accepted the run (or loaded it from storage) a following pass
\* with output.output (resp. input) unchanged does not invoke the schema
\* validator on that value; a pass on a value that is not the last one
\* recorded (a changed value, or one that an earlier pass rejected) invokes
\* the validator again, for output.output unless the input check of that
\* pass fails first.
C5_CachedOnceAccepted ==
    [][IsAssign(op') =>
          /\ (ConsecutivePasses /\ op.error = None)
                => /\ (DeclaresInputSchema(op'.subject) /\ InputUnchanged)
                         => ~op'.input_checked
                   /\ (DeclaresOutputSchema(op'.subject) /\ OutputUnchanged)
                         => ~op'.output_checked
          /\ DeclaresInputSchema(op'.subject)
                => (op'.input_checked <=> InputNotRecorded(op'.subject))
          /\ (DeclaresOutputSchema(op'.subject) /\ op'.error \notin InputErrors)
                => (op'.output_checked <=> OutputNotRecorded(op'.subject))]_vars

\* C5 witness: a pass on a run of a task with both schemas, following an
\* accepting pass, that invoked the schema validator on neither value
C5_Witness_SecondPassSkips ==
    /\ op.name = "set_repair_instructions"
    /\ op.subject.parent = "task_structured"
    /\ ~op.subject.loaded_from_file
    /\ ~op.input_checked /\ ~op.output_checked
    /\ op.error = None

\* What loading does: no schema check, no schema error, and the loaded
\* values recorded as last validated
LoadTrustsStorage ==
    op.name = "load_run"
    => /\ ~op.input_checked /\ ~op.output_checked
       /\ op.error \notin SchemaErrors
       /\ op.error = None
             => /\ run.has_last_validated_input
                /\ run.last_validated_input = op.subject.input
                /\ run.has_last_validated_output
                /\ run.last_validated_output = op.subject.output.output

\* C6 (as claimed): loading a run from storage records its input and
\* output.output as last validated without any schema check; afterwards a
\* mutation of input or output re-runs schema validation if and only if
\* the new value differs from the last-validated value.
C6_LoadedRecheckIffDiffers ==
    /\ LoadTrustsStorage
    /\ (op.name = "set_input" /\ op.subject.loaded_from_file)
          => (op.input_checked <=> InputNotRecorded(op.subject))
    /\ (op.name = "set_output" /\ op.subject.loaded_from_file)
          => (op.output_checked <=> OutputNotRecorded(op.subject))

\* C6 (amended): loading a run from storage records its input and
\* output.output as last validated without any schema check, conforming or
\* not; afterwards a mutation of input or output re-runs the schema check of
\* that value if and only if the new value differs from the last-validated
\* value and the run has a parent task that declares a schema for that side
\* (for output, provided the input check of the same pass does not fail
\* first).
C6_LoadedRecheckWithSchema ==
    /\ LoadTrustsStorage
    /\ (op.name = "set_input" /\ op.subject.loaded_from_file)
          => (op.input_checked
                <=> (InputNotRecorded(op.subject) /\ DeclaresInputSchema(op.subject)))
    /\ (op.name = "set_output" /\ op.subject.loaded_from_file
          /\ op.error \notin InputErrors)
          => (op.output_checked
                <=> (OutputNotRecorded(op.subject) /\ DeclaresOutputSchema(op.subject)))

\* C6 witness: a run was loaded with a stored output that does not conform
\* to its task's schema, and a later change of its input was schema-checked
C6_Witness_LoadedThenMutated ==
    /\ op.name = "set_input"
    /\ op.subject.loaded_from_file
    /\ op.subject.parent = "task_structured"
    /\ op.subject.output.output = TextPlain
    /\ op.subject.last_validated_output = TextPlain
    /\ op.input_checked
    /\ op.error = None

RepairErrors ==
    {"Repaired output rating must be None",
     "Repair instructions are required if providing a repaired output",
     "A repaired output is required if providing repair instructions"}

SameCaches(r1, r2) ==
    /\ r1.has_last_validated_input = r2.has_last_validated_input
    /\ r1.last_validated_input = r2.last_validated_input
    /\ r1.has_last_validated_output = r2.has_last_validated_output
    /\ r1.last_validated_output = r2.last_validated_output

\* C7: a validation pass on a freshly constructed or mutated run without a
\* parent task runs no schema check on input or output.output, raises no
\* error for the missing parent and records no last-validated value; a
\* later pass with a parent attached then checks the values against the
\* schemas the task declares (input first, output.output once the input is
\* accepted).
C7_NoParentDefers ==
    /\ (IsPass(op) /\ ~op.loading /\ op.subject.parent = None)
          => /\ ~op.input_checked /\ ~op.output_checked
             /\ op.error \in {None} \cup RepairErrors
             /\ run.exists => SameCaches(run, op.subject)
             /\ op.name = "construct_run"
                   => /\ ~op.subject.has_last_validated_input
                      /\ ~op.subject.has_last_validated_output
    /\ op.name = "set_parent"
          => /\ (InputNotRecorded(op.subject) /\ DeclaresInputSchema(op.subject))
                   => op.input_checked
             /\ (OutputNotRecorded(op.subject) /\ DeclaresOutputSchema(op.subject)
                   /\ op.error \notin InputErrors)
                   => op.output_checked

\* C7 witness: a run constructed without a parent, with a non-conforming
\* output changed without a parent, has a task attached and is then rejected
\* by the schema check of its output
C7_Witness_AttachedLater ==
    /\ op.name = "set_parent"
    /\ ~op.subject.loaded_from_file
    /\ ~op.subject.has_last_validated_input
    /\ ~op.subject.has_last_validated_output
    /\ op.input_checked /\ op.output_checked
    /\ op.error \in OutputErrors

\* C8 (as claimed, for the last-validated values): when schema validation
\* rejects a mutation of a run's input or output, the last-validated caches
\* are what they were before the mutation (no partial commit).
C8_NoPartialCommit ==
    (op.name \in {"set_input", "set_output"} /\ op.error \in SchemaErrors)
    => SameCaches(run, op.subject)

\* What the texts are, independently of the validators: which of them parse
\* as JSON, and which of those are objects with an integer "a"
ParsesAsJson(text) == text \in {TextA1, TextA2, TextB}
ConformsToSchemaA(text) == text \in {TextA1, TextA2}

\* C9: when the schema check of the input (resp. output.output) runs, which
\* is only for a parent task declaring a schema for that side, it fails with
\* "... is not a valid JSON object" exactly when the text does not parse as
\* JSON and with "... does not match task ... schema" exactly when it parses
\* but violates the schema; without a declared schema for a side no such
\* error is raised for any text.
C9_ErrorKinds ==
    IsPass(op)
    => LET s == op.subject
       IN  /\ op.input_checked
                => /\ DeclaresInputSchema(s)
                   /\ op.error = "Input is not a valid JSON object"
                         <=> ~ParsesAsJson(s.input)
                   /\ op.error = "Input does not match task input schema"
                         <=> (ParsesAsJson(s.input) /\ ~ConformsToSchemaA(s.input))
           /\ op.output_checked
                => /\ DeclaresOutputSchema(s)
                   /\ op.error = "Output is not a valid JSON object"
                         <=> ~ParsesAsJson(s.output.output)
                   /\ op.error = "Output does not match task output schema"
                         <=> (ParsesAsJson(s.output.output)
                                /\ ~ConformsToSchemaA(s.output.output))
           /\ op.error \in InputErrors => op.input_checked
           /\ op.error \in OutputErrors => op.output_checked
           /\ ~DeclaresInputSchema(s) => op.error \notin InputErrors
           /\ ~DeclaresOutputSchema(s) => op.error \notin OutputErrors

\* C9 witness: an output that parses as JSON but lacks the required
\* property was rejected as a schema mismatch
C9_Witness_Mismatch ==
    /\ IsPass(op)
    /\ op.output_checked
    /\ op.subject.output.output = TextB
    /\ op.error = "Output does not match task output schema"

\* C10: a run that passes validation has repair_instructions and
\* repaired_output both present or both absent, and a present
\* repaired_output has no rating; construction fails with repaired_output
\* set and repair_instructions unset, with repair_instructions set and
\* repaired_output unset, and with both set and a rated repaired_output.
C10_RepairPairing ==
    IsPass(op)
    => LET s == op.subject
           both == s.repair_instructions # None /\ s.repaired_output.present
           neither == s.repair_instructions = None /\ ~s.repaired_output.present
           rated == s.repaired_output.present /\ s.repaired_output.has_rating
       IN  /\ op.error = None => ((both \/ neither) /\ ~rated)
           /\ (op.name = "construct_run" /\ (~(both \/ neither) \/ rated))
                 => (op.error # None /\ ~run.exists)
           /\ (op.error = None /\ run.exists)
                 => /\ (run.repair_instructions # None) <=> run.repaired_output.present
                    /\ ~run.repaired_output.has_rating

\* C10 witness: a construction with repair instructions and a rated
\* repaired output was refused for the rating
C10_Witness_RatedRepair ==
    /\ op.name = "construct_run"
    /\ op.subject.repair_instructions # None
    /\ op.subject.repaired_output.present
    /\ op.subject.repaired_output.has_rating
    /\ op.error = "Repaired output rating must be None"
    /\ ~run.exists

\* A mutation that changes only the input (resp. only output.output) of a
\* run whose other value is unchanged and recorded as validated
ChangesOnlyInput ==
    /\ run.exists /\ op'.name = "set_input"
    /\ op'.subject.input # run.input
    /\ ~OutputNotRecorded(op'.subject)
ChangesOnlyOutput ==
    /\ run.exists /\ op'.name = "set_output"
    /\ op'.subject.output.output # run.output.output
    /\ ~InputNotRecorded(op'.subject)

OutputCacheKept ==
    /\ run'.has_last_validated_output = run.has_last_validated_output
    /\ run'.last_validated_output = run.last_validated_output
InputCacheKept ==
    /\ run'.has_last_validated_input = run.has_last_validated_input
    /\ run'.last_validated_input = run.last_validated_input

\* C19 (as claimed): a mutation that changes only input, with output.output
\* unchanged and cached as validated, runs the input schema check but not
\* the output schema check and leaves the output cache unchanged; a mutation
\* that changes only the output leaves the input cache unchanged and runs
\* no input schema check.
C19_IndependentCaches ==
    [][/\ ChangesOnlyInput
             => (op'.input_checked /\ ~op'.output_checked /\ OutputCacheKept)
       /\ ChangesOnlyOutput
             => (~op'.input_checked /\ InputCacheKept)]_vars

\* C19 (amended): a mutation that changes only input, with output.output
\* unchanged and cached as validated, runs no output schema check and
\* leaves the output cache unchanged, and it runs the input schema check
\* exactly when the parent task declares an input schema and the new input
\* is not the last-validated one; symmetrically a mutation that changes
\* only the output runs no input schema check and leaves the input cache
\* unchanged, and it runs the output schema check exactly when the parent
\* task declares an output schema and the new output is not the
\* last-validated one.
C19_IndependentCachesWithSchema ==
    [][/\ ChangesOnlyInput
             => /\ ~op'.output_checked /\ OutputCacheKept
                /\ op'.input_checked
                      <=> (DeclaresInputSchema(op'.subject)
                             /\ InputNotRecorded(op'.subject))
       /\ ChangesOnlyOutput
             => /\ ~op'.input_checked /\ InputCacheKept
                /\ op'.output_checked
                      <=> (DeclaresOutputSchema(op'.subject)
                             /\ OutputNotRecorded(op'.subject))]_vars

\* C19 witness: the input of an accepted run of a task with both schemas
\* was changed; the input was checked, the output was not, and the output
\* cache still holds the output
C19_Witness_OnlyInputChecked ==
    /\ op.name = "set_input"
    /\ op.subject.parent = "task_structured"
    /\ op.input_checked /\ ~op.output_checked
    /\ op.error = None
    /\ op.subject.input # op.subject.last_validated_input
    /\ run.last_validated_output = run.output.output
    /\ run.last_validated_input = run.input

---------------------------------------------------------------------------
(* Claims about the structural checks of a TaskRun *)

WhitespaceCharacters == {" ", "\t", "\n"}

HasWhitespace(tag) == \E j \in 1..Len(tag) : tag[j] \in WhitespaceCharacters

WellFormedTags(tags) ==
    \A i \in 1..Len(tags) : tags[i] # <<>> /\ ~HasWhitespace(tags[i])

\* C11 (as claimed): every tag of a run that passes validation is a
\* non-empty string without any whitespace character (space, tab, newline);
\* a tag list with an empty tag or a tag with whitespace is rejected, and
\* the list [a_b, c] is accepted.
C11_TagsWellFormed ==
    IsPass(op)
    => /\ op.error = None => WellFormedTags(op.subject.tags)
       /\ ~WellFormedTags(op.subject.tags) => op.error # None
       /\ op.subject.tags = <<Tag_a_b, Tag_c>> => op.error = None
       /\ run.exists => WellFormedTags(run.tags)

InputSourceError == "input_source is required when strict mode is enabled"
OutputSourceError == "Output source is required when strict mode is enabled"
TagErrors == {"Tags cannot be empty strings", "Tags cannot contain spaces. Try underscores."}

\* The operations that validate a TaskOutput by itself: its construction
\* and an assignment to one of its fields
ValidatesOutputAlone(o) ==
    o.name \in {"construct_run", "set_output", "set_output_in_place"}

\* The instance the validators of the last pass were given was materialized
\* from storage
SubjectLoaded == op.loading \/ op.subject.loaded_from_file

\* The TaskOutput the last operation validated
OutputValidated ==
    IF op.name = "set_output_in_place" THEN run.output ELSE op.subject.output

\* C12: strict mode is off by default; a validation pass rejects a TaskRun
\* without input_source (resp. a TaskOutput without source) if and only if
\* strict mode is on at that moment and the instance was not materialized
\* from storage; loaded instances are exempt on load and in every later
\* pass.
C12_StrictPresence ==
    /\ op.name = "init" => ~strict_mode
    /\ IsPass(op)
          => /\ op.error = InputSourceError
                   => (strict_mode /\ ~SubjectLoaded /\ op.subject.input_source = None)
             /\ (strict_mode /\ ~SubjectLoaded /\ op.subject.input_source = None)
                   => /\ op.error # None
                      /\ op.error \in {InputSourceError, OutputSourceError}
                                         \cup SchemaErrors \cup RepairErrors
             /\ (op.subject.input_source = None /\ op.error = None)
                   => (~strict_mode \/ SubjectLoaded)
    /\ (ValidatesOutputAlone(op) \/ IsPass(op))
          => (op.error = OutputSourceError
                <=> /\ ValidatesOutputAlone(op)
                    /\ strict_mode
                    /\ ~OutputValidated.loaded_from_file
                    /\ OutputValidated.source = None)

\* C12 witness: under strict mode a loaded run without input_source, whose
\* output has no source, is mutated and accepted
C12_Witness_LoadedExempt ==
    /\ IsAssign(op)
    /\ strict_mode
    /\ op.subject.loaded_from_file
    /\ op.subject.input_source = None
    /\ op.subject.output.source = None
    /\ op.error = None

\* C13: set_strict_mode changes the flag to the value given, which
\* strict_mode() returns until the next call, and nothing else: no existing
\* run or output is re-validated, altered or invalidated by the toggle; the
\* validation passes that start afterwards go by the new value.
C13_ToggleFrame ==
    [][/\ op'.name = "set_strict_mode"
             => /\ strict_mode' = op'.value
                /\ run' = run
                /\ <<task_runs, next_id, build, ds>>' = <<task_runs, next_id, build, ds>>
       /\ op'.name # "set_strict_mode" => strict_mode' = strict_mode
       /\ (IsPass(op') /\ ~op'.loading /\ ~op'.subject.loaded_from_file
             /\ op'.subject.input_source = None)
             => /\ strict_mode => op'.error # None
                /\ ~strict_mode => op'.error # InputSourceError]_vars

\* C13 witness: a run accepted with strict mode off and no input_source
\* stays as it is when the flag is switched on
C13_Witness_ToggledOn ==
    /\ op.name = "set_strict_mode"
    /\ strict_mode
    /\ run.exists
    /\ ~run.loaded_from_file
    /\ run.input_source = None

\* What the structural rules ask of a run: repair instructions and
\* repaired output paired, no rating on the repaired output, well-formed
\* tags, and an input_source when strict mode is on and the run is not
\* loaded
StructurallySound(r, loading) ==
    /\ (r.repair_instructions # None) <=> r.repaired_output.present
    /\ ~(r.repaired_output.present /\ r.repaired_output.has_rating)
    /\ WellFormedTags(r.tags)
    /\ (strict_mode /\ ~(loading \/ r.loaded_from_file)) => r.input_source # None

\* The pass came to the structural checks: neither the constructor of the
\* TaskOutput nor a schema check has rejected the run before
ReachedStructuralChecks ==
    IsPass(op) /\ op.error \notin SchemaErrors \cup {OutputSourceError}

\* C20 (as claimed): the structural checks run on every validation pass,
\* whatever the change cache holds: a pass with input and output.output
\* unchanged and cached, and a pass that loads the run from storage, reject
\* a run that violates one of them (and no other).
C20_StructuralEveryPass ==
    ReachedStructuralChecks
    => (op.error = None <=> StructurallySound(op.subject, op.loading))

---------------------------------------------------------------------------
(* Claims about ratings and the dataset filters *)

\* The values the rating types admit: 1..5 for five_star, 0 and 1 for
\* pass_fail, -1, 0 and 1 for pass_fail_critical, anything for custom
LegalValue(type, value) ==
    \/ type = "custom"
    \/ /\ ~value.is_none
       /\ \/ type = "five_star" /\ value.halves \in {2, 4, 6, 8, 10}
          \/ type = "pass_fail" /\ value.halves \in {0, 2}
          \/ type = "pass_fail_critical" /\ value.halves \in {-2, 0, 2}

RatingConstructed ==
    op.name = "construct_rating"
    /\ requirement_ratings_field_error(op.requirement_ratings) = None

LegalRequirements ==
    \A k \in DOMAIN op.requirement_ratings :
        LegalValue(op.requirement_ratings[k].type,
                   op.requirement_ratings[k].value)

\* C14 (as claimed): a TaskOutputRating is accepted exactly when its
\* overall value is one its type admits (None is not one for five_star,
\* pass_fail and pass_fail_critical) and every requirement rating's value
\* is one that entry's type admits.
C14_LegalValuesOnly ==
    RatingConstructed
    => (op.error = None <=> LegalValue(op.type, op.value) /\ LegalRequirements)

\* C14 (amended): a TaskOutputRating is accepted exactly when its overall
\* value is None or one its type admits, and every requirement rating's
\* value is one that entry's type admits.
C14_LegalValuesOrNone ==
    RatingConstructed
    => (op.error = None
        <=> (op.value.is_none \/ LegalValue(op.type, op.value))
            /\ LegalRequirements)

\* A five_star rating without overall value, accepted with a pass_fail
\* requirement rating
C14_Witness_NoOverallValue ==
    /\ RatingConstructed
    /\ op.error = None
    /\ op.type = "five_star" /\ op.value.is_none
    /\ \E k \in DOMAIN op.requirement_ratings :
          op.requirement_ratings[k].type = "pass_fail"

\* The ratings that count as high quality: five_star from 4, pass_fail and
\* pass_fail_critical at 1; never custom, never a missing rating or value
HighQualityRating(rating) ==
    /\ rating.present /\ rating.has_value
    /\ \/ rating.type = "five_star" /\ rating.value >= 4
       \/ rating.type \in {"pass_fail", "pass_fail_critical"} /\ rating.value = 1

\* C15: HighRatingDatasetFilter accepts a run iff the run has a repaired
\* output or its output rating is high quality (five_star iff value >= 4,
\* pass_fail and pass_fail_critical iff value = 1, never for custom or a
\* missing value); AllDatasetFilter accepts every run.
C15_FilterAccepts ==
    op.name = "filter"
    => op.accepted
       = IF op.filter = "AllDatasetFilter" THEN TRUE
         ELSE op.task_run.repaired_output # None
              \/ HighQualityRating(op.task_run.rating)

\* A run without repaired output, accepted for its pass_fail_critical
\* rating of 1
C15_Witness_HighQualityPass ==
    /\ op.name = "filter" /\ op.filter = "HighRatingDatasetFilter"
    /\ op.accepted
    /\ op.task_run.repaired_output = None
    /\ op.task_run.rating.type = "pass_fail_critical"
    /\ op.task_run.rating.value = 1

\* Every value of the map given to the constructor is a bare number
AllNumeric(req_ratings) ==
    \A k \in DOMAIN req_ratings : req_ratings[k].numeric

\* C16: the migration of requirement_ratings runs before the other
\* validators (an old-format map is validated as the five_star ratings it
\* becomes) and rewrites the map exactly when every value is numeric, each
\* v becoming {value: v, type: five_star} under the same key; a typed, a
\* mixed and an empty map are left as they are, and migrating the result
\* again changes nothing.
C16_LegacyMigration ==
    op.name = "construct_rating"
    => /\ DOMAIN op.requirement_ratings = DOMAIN op.req_ratings
       /\ \A k \in DOMAIN op.req_ratings :
             op.requirement_ratings[k]
             = IF AllNumeric(op.req_ratings)
               THEN [numeric |-> FALSE, value |-> op.req_ratings[k].value,
                     type |-> "five_star"]
               ELSE op.req_ratings[k]
       /\ upgrade_old_format(op.requirement_ratings) = op.requirement_ratings
       /\ AllNumeric(op.req_ratings)
          => (op.error = None
              <=> /\ op.value.is_none \/ LegalValue(op.type, op.value)
                  /\ \A k \in DOMAIN op.req_ratings :
                        LegalValue("five_star", op.req_ratings[k].value))

\* An old-format map with two numbers, migrated and accepted
C16_Witness_Migrated ==
    /\ op.name = "construct_rating" /\ op.error = None
    /\ Cardinality(DOMAIN op.req_ratings) = 2
    /\ AllNumeric(op.req_ratings)
    /\ \A k \in DOMAIN op.requirement_ratings :
          ~op.requirement_ratings[k].numeric

---------------------------------------------------------------------------
(* Claims about missing_count *)

CurrentRunIds == {task_runs[i].id : i \in 1..Len(task_runs)}

\* The IDs some list of the split's contents holds
ListedRunIds ==
    {id \in 1..MaxRunIds :
        \E k \in DOMAIN ds.split_contents :
            \E i \in 1..Len(ds.split_contents[k]) : ds.split_contents[k][i] = id}

\* C17: missing_count() returns the number of distinct run IDs listed in
\* the split's contents that are not the ID of a current run of the parent
\* task (an ID in several lists counts once, current runs outside the
\* split do not count); it raises when the split has no parent task; it
\* changes no state.
C17_MissingCount ==
    [][op'.name = "missing_count"
       => /\ UNCHANGED <<task_runs, next_id, build, ds, run, strict>>
          /\ IF ds.has_parent
             THEN /\ op'.error = None
                  /\ op'.result = Cardinality(ListedRunIds \ CurrentRunIds)
             ELSE op'.error = "DatasetSplit has no parent task"]_vars

\* One missing ID listed in both lists, one current run listed, one
\* current run outside the split: the count is 1
C17_Witness_CountedOnce ==
    /\ op.name = "missing_count" /\ op.error = None /\ op.result = 1
    /\ \E id \in ListedRunIds \ CurrentRunIds :
          \A k \in DOMAIN ds.split_contents : id \in Items(ds.split_contents[k])
    /\ ListedRunIds \cap CurrentRunIds # {}
    /\ CurrentRunIds \ ListedRunIds # {}

---------------------------------------------------------------------------
(* Claims about data sources *)

SourceConstructed == op.name = "construct_source"

\* The registered properties are present where required, absent where not
\* allowed, and of their registered type where present
RegistryRespected(type, properties) ==
    \A i \in 1..Len(data_source_properties) :
        LET prop == data_source_properties[i]
            present == prop.name \in DOMAIN properties
        IN  /\ type \in prop.required_for => present
            /\ type \in prop.not_allowed_for => ~present
            /\ present => properties[prop.name].type = prop.type

NoEmptyString(properties) ==
    \A name \in DOMAIN properties : properties[name] # StrValue("")

\* C18: a DataSource is accepted iff every registered property is present
\* when the type requires it, absent when the type forbids it and of its
\* registered type when present, and no property value, registered or not,
\* is an empty string; so human with {} and human with model_name fail,
\* and synthetic with model_name, model_provider and adapter_name succeeds.
C18_DataSourceAccepted ==
    SourceConstructed
    => /\ op.error = None
          <=> RegistryRespected(op.type, op.properties)
              /\ NoEmptyString(op.properties)
       /\ (op.type = "human" /\ DOMAIN op.properties = {}) => op.error # None
       /\ (op.type = "human" /\ "model_name" \in DOMAIN op.properties)
          => op.error # None
       /\ (/\ op.type = "synthetic"
           /\ DOMAIN op.properties = {"model_name", "model_provider", "adapter_name"}
           /\ \A name \in DOMAIN op.properties : op.properties[name] = StrValue("gpt"))
          => op.error = None

\* A synthetic source accepted with its three required properties and an
\* unregistered one holding an int
C18_Witness_UnknownProperty ==
    /\ SourceConstructed /\ op.error = None
    /\ op.type = "synthetic"
    /\ DOMAIN op.properties = {"model_name", "model_provider", "adapter_name", "note"}
    /\ op.properties["note"] = IntValue("1")

---------------------------------------------------------------------------
(* Claims about the life of a dataset split *)

\* C21 (as claimed): in every reachable state of a DatasetSplit, after
\* construction and after any mutation of its splits list (reassignment,
\* append, removal, change of a percentage), the percentages of its splits
\* sum to 1.0 within tolerance.
C21_SumAlwaysOne ==
    ds.exists => IsCloseToOne(SumPercentages(ds.splits))

\* The IDs handed out to runs that the task no longer has
DeletedRunIds == (1..(next_id - 1)) \ CurrentRunIds

\* The IDs in the lists of the split's contents
SplitRunIds ==
    UNION {Items(ds.split_contents[k]) : k \in DOMAIN ds.split_contents}

\* From the moment from_task has made the split: a step keeps
\* split_contents; removing a run whose ID the split holds raises the count
\* by one, every other step keeps it
CountFollowsDeletions ==
    (ds.exists /\ ds.has_parent)
    => /\ ds'.split_contents = ds.split_contents
       /\ missing_count(ds', task_runs')
          = IF op'.name = "delete_run"
               /\ (CurrentRunIds \ {task_runs'[i].id : i \in 1..Len(task_runs')})
                   \cap SplitRunIds # {}
            THEN missing_count(ds, task_runs) + 1
            ELSE missing_count(ds, task_runs)

\* C22: right after from_task succeeds missing_count() is 0; after any
\* additions and deletions of runs it is the number of distinct run IDs in
\* split_contents whose run has been deleted (deleting a run of the split
\* raises it by one, deleting another run or adding runs leaves it), and
\* split_contents never changes.
C22_CountTracksDeletions ==
    /\ []((op.name = "from_task" /\ op.error = None)
           => ds.has_parent /\ missing_count(ds, task_runs) = 0)
    /\ []((ds.exists /\ ds.has_parent)
           => missing_count(ds, task_runs)
              = Cardinality(SplitRunIds \cap DeletedRunIds))
    /\ [](op.name = "missing_count"
           => op.error = None
              /\ op.result = Cardinality(SplitRunIds \cap DeletedRunIds))
    /\ [][CountFollowsDeletions]_vars

\* The split is counted at 1 after a run it holds and a run it never held
\* were deleted and a run was added
C22_Witness_OneOfTwoDeleted ==
    /\ op.name = "missing_count" /\ op.error = None /\ op.result = 1
    /\ DeletedRunIds \ SplitRunIds # {}
    /\ CurrentRunIds \ SplitRunIds # {}
    /\ \E id \in CurrentRunIds : \A other \in SplitRunIds \cup DeletedRunIds : id > other

---------------------------------------------------------------------------
(* Soundness of the change cache *)

InputCached == run.has_last_validated_input /\ run.last_validated_input = run.input
OutputCached ==
    run.has_last_validated_output /\ run.last_validated_output = run.output.output

\* C23: for a run constructed (never loaded) under a parent task and kept
\* under it, whenever the last-validated input (resp. output) is set and
\* equals the current input (resp. output.output), that value parses as
\* JSON and conforms to the task's schema if the task declares one; and a
\* value the schema check has just rejected is not the recorded one.
C23_CacheSound ==
    run.exists
    => /\ (InputCached /\ DeclaresInputSchema(run))
          => ParsesAsJson(run.input) /\ ConformsToSchemaA(run.input)
       /\ (OutputCached /\ DeclaresOutputSchema(run))
          => ParsesAsJson(run.output.output) /\ ConformsToSchemaA(run.output.output)
       /\ (IsAssign(op) /\ op.error \in InputErrors)
          => ~(run.has_last_validated_input
               /\ run.last_validated_input = op.subject.input)
       /\ (IsAssign(op) /\ op.error \in OutputErrors)
          => ~(run.has_last_validated_output
               /\ run.last_validated_output = op.subject.output.output)

\* A rejected assignment left its value in the input field, and the cache
\* still holds the conforming value recorded before
C23_Witness_RejectedNotRecorded ==
    /\ run.exists /\ DeclaresInputSchema(run)
    /\ op.name = "set_input" /\ op.error \in InputErrors
    /\ run.input = op.subject.input
    /\ run.has_last_validated_input
    /\ ConformsToSchemaA(run.last_validated_input)

=============================================================================
